---- MODULE Spec2Model ----
(***************************************************************************)
(* Model of Quad9Domains.py: a script that fetches the malicious domains   *)
(* first seen in a time window from the CTI database (and, through an SSH  *)
(* tunnel, from the "task" collection of Q servers) and writes them to a   *)
(* text file named after the window.                                       *)
(*                                                                         *)
(* Strings the code manipulates character by character (the st/et          *)
(* arguments, the output file name) are sequences of one-character         *)
(* strings.  Domain names are atoms: the code never looks inside them.     *)
(* A datetime is the proleptic Gregorian ordinal of its day; the unit of   *)
(* time of the model is one day.                                           *)
(*                                                                         *)
(* Spec  is the script's __main__ run.                                     *)
(* SpecQ is one call of fetch_domains_per_period_from_q, a function the    *)
(* script defines but (its loop being commented out) never calls.          *)
(***************************************************************************)
EXTENDS Integers, Sequences, FiniteSets, TLC

\* ------------------------------------------------------------------ bounds
\* largest number of rows in the CTI Dns table
MaxRecords == 3
\* largest number of entries of "servers" in the Q configuration file
MaxServers == 2
\* largest number of documents in a Q server's task collection
MaxDocs == 2
\* number of days after the first day of the model's calendar
MaxDays == 2

\* ------------------------------------------------------------- primitives
None == "None"
NoField == "NoField"

Range(s) == {s[i] : i \in 1..Len(s)}

\* str(chars): a Python string literal as a sequence of characters
Prefix == <<"q","u","a","d","9","_","d","o","m","a","i","n","s","_">>
Suffix == <<".","t","x","t">>

Digits == {"0","1","2","3","4","5","6","7","8","9"}

DigitVal(c) ==
    CASE c = "0" -> 0 [] c = "1" -> 1 [] c = "2" -> 2 [] c = "3" -> 3
      [] c = "4" -> 4 [] c = "5" -> 5 [] c = "6" -> 6 [] c = "7" -> 7
      [] c = "8" -> 8 [] c = "9" -> 9

AllDigits(s) == \A i \in 1..Len(s) : s[i] \in Digits

RECURSIVE NumVal(_)
NumVal(s) ==
    IF s = <<>> THEN 0
    ELSE NumVal(SubSeq(s, 1, Len(s) - 1)) * 10 + DigitVal(s[Len(s)])

\* the fields of s between occurrences of sep
RECURSIVE Split(_, _)
Split(s, sep) ==
    IF \E i \in 1..Len(s) : s[i] = sep
    THEN LET i == CHOOSE k \in 1..Len(s) :
                      s[k] = sep /\ \A j \in 1..(k - 1) : s[j] # sep
         IN  <<SubSeq(s, 1, i - 1)>> \o Split(SubSeq(s, i + 1, Len(s)), sep)
    ELSE <<s>>

\* ---------------------------------------------------------------- datetime
IsLeap(y) == (y % 4 = 0) /\ ((y % 100 # 0) \/ (y % 400 = 0))

DaysInMonth(y, m) ==
    IF m = 2 THEN (IF IsLeap(y) THEN 29 ELSE 28)
    ELSE IF m \in {4, 6, 9, 11} THEN 30 ELSE 31

DaysBeforeYear(y) ==
    (y - 1) * 365 + ((y - 1) \div 4) - ((y - 1) \div 100) + ((y - 1) \div 400)

RECURSIVE DaysBeforeMonth(_, _)
DaysBeforeMonth(y, m) ==
    IF m = 1 THEN 0 ELSE DaysBeforeMonth(y, m - 1) + DaysInMonth(y, m - 1)

toordinal(y, m, d) == DaysBeforeYear(y) + DaysBeforeMonth(y, m) + d

ValueError == "ValueError"

\* what a call gives: a value, or the exception it raised
Returned(v) == [ok |-> TRUE, value |-> v, error |-> None]
Raised(e) == [ok |-> FALSE, value |-> None, error |-> e]

\* dt.datetime.strptime(s, '%d/%m/%Y'): day and month of one or two digits,
\* a year of four, separated by '/', naming a day that exists
strptime(s) ==
    LET f == Split(s, "/") IN
    IF /\ Len(f) = 3
       /\ Len(f[1]) \in {1, 2} /\ AllDigits(f[1])
       /\ Len(f[2]) \in {1, 2} /\ AllDigits(f[2])
       /\ Len(f[3]) = 4 /\ AllDigits(f[3])
       /\ NumVal(f[3]) >= 1
       /\ NumVal(f[2]) \in 1..12
       /\ NumVal(f[1]) \in 1..DaysInMonth(NumVal(f[3]), NumVal(f[2]))
    THEN Returned(toordinal(NumVal(f[3]), NumVal(f[2]), NumVal(f[1])))
    ELSE Raised(ValueError)

\* ------------------------------------------------------------------ inputs
\* str(s): a date argument as typed on the command line
Date0 == <<"0","1","/","0","1","/","2","0","2","3">>
Date2 == <<"0","3","/","0","1","/","2","0","2","3">>
Date7 == <<"0","8","/","0","1","/","2","0","2","3">>
\* a day that does not exist, and a date in another format
DateBadDay == <<"3","1","/","0","2","/","2","0","2","3">>
DateBadFormat == <<"2","0","2","3","-","0","1","-","0","1">>

ArgStrings == {Date0, Date2, Date7, DateBadDay, DateBadFormat}

\* first_seen / time_start values: from the day before 01/01/2023 on
Day0 == toordinal(2023, 1, 1)
Times == (Day0 - 1)..(Day0 + MaxDays)

\* domain names; "A.test" and "a.test" differ only in case
CtiDomainNames == {"a.test", "A.test"}
QDomainNames == {"a.test", "c.test"}

\* the subsets of S of at most n elements
RECURSIVE SubsetsUpTo(_, _)
SubsetsUpTo(S, n) ==
    IF n = 0 THEN {{}}
    ELSE LET smaller == SubsetsUpTo(S, n - 1) IN
         smaller \cup {T \cup {x} : T \in smaller, x \in S}

\* the orders in which the elements of a collection can be enumerated
Orderings(S) == {s \in [1..Cardinality(S) -> S] : Range(s) = S}

\* rows of the CTI Dns table
DnsRows == [dns_record : CtiDomainNames, first_seen : Times]

\* documents of a task collection; NoField: no task_kwargs.domain_name
TaskDocs == [domain_name : QDomainNames \cup {NoField},
             verdict : {"malicious", "benign"},
             time_start : Times]

\* the entries "servers" can list
Endpoints == { [public |-> "q1.pub", private |-> "q1.priv"],
               [public |-> "q2.pub", private |-> "q2.priv"] }

RECURSIVE SeqsUpTo(_, _)
SeqsUpTo(S, n) ==
    IF n = 0 THEN {<<>>}
    ELSE LET shorter == SeqsUpTo(S, n - 1) IN
         shorter \cup {Append(s, x) : s \in shorter, x \in S}

\* contents of the Q configuration file: absent, not JSON, or a JSON object
\* with the keys `keys`, whose "servers" (when present) is `servers`
AllKeys == {"user", "password", "db_name", "servers"}

ConfigFiles ==
    { [kind |-> "absent", keys |-> {}, servers |-> <<>>],
      [kind |-> "malformed", keys |-> {}, servers |-> <<>>],
      [kind |-> "json", keys |-> AllKeys \ {"servers"}, servers |-> <<>>] }
    \cup { [kind |-> "json", keys |-> k, servers |-> s] :
              k \in {AllKeys, AllKeys \ {"db_name"}},
              s \in SeqsUpTo(Endpoints, MaxServers) }

Unread == [kind |-> "unread", keys |-> {}, servers |-> <<>>]

\* ------------------------------------------------------------------- state
VARIABLES
    pc,          \* position of the run (Spec) or of the call (SpecQ)
    args,        \* args.st, args.et: the date arguments, as strings
    st, et,      \* the parsed window (start_time, end_time in the functions)
    exc,         \* the uncaught exception that ended the run, or None
    log,         \* records written to the logger: <<level, message>>
    ctiConnected,\* connect_to_cti_db has returned
    dnsRows,     \* the rows the Dns table held when it was queried
    config,      \* what reading config_file gave, Unread before
    q_servers,   \* list of QServer
    domains,     \* the set `domains`
    fs,          \* output files on disk: set of [name, content]
    q,           \* the QServer a call of fetch_domains_per_period_from_q got
    tunnel,      \* SSHTunnelForwarder: "none", "started", "stopped"
    qStore,      \* task collection of each endpoint, by public address
    reachable,   \* public addresses an SSH tunnel can be established to
    queried      \* public addresses whose task collection has been queried

vars == <<pc, args, st, et, exc, log, ctiConnected, dnsRows, config,
          q_servers, domains, fs, q, tunnel, qStore, reachable, queried>>

mainVars == <<args, ctiConnected, dnsRows, config, q_servers, fs>>
qVars == <<q, tunnel, qStore, reachable, queried>>

\* --------------------------------------------------------------- functions
QServer(public_addr, private_addr, username, password, db_name) ==
    [public_addr |-> public_addr, private_addr |-> private_addr,
     username |-> username, password |-> password, db_name |-> db_name]

\* open + json.load, then one QServer per entry of config['servers'].  The
\* comprehension reads config['user'], ['password'], ['db_name'] once per
\* entry, so a missing credential key raises only when there is an entry.
get_q_servers_from_config(file) ==
    IF file.kind = "absent" THEN Raised("FileNotFoundError")
    ELSE IF file.kind = "malformed" THEN Raised("JSONDecodeError")
    ELSE IF "servers" \notin file.keys THEN Raised("KeyError")
    ELSE IF Len(file.servers) > 0
            /\ ~ ({"user", "password", "db_name"} \subseteq file.keys)
         THEN Raised("KeyError")
    ELSE Returned([i \in 1..Len(file.servers) |->
                     QServer(file.servers[i].public, file.servers[i].private,
                             "user", "secret", "q")])

\* the window closed at its end: first_seen <= end
get_cti_domains_per_period_closed(start_time, end_time, rows) ==
    Orderings({r.dns_record :
                 r \in {x \in rows : x.first_seen <= end_time
                                     /\ x.first_seen >= start_time}})

\* SELECT DISTINCT dns_record ... WHERE first_seen < end AND first_seen >=
\* start, as a list: the lists the query can give, the row order being the
\* database's choice
get_cti_domains_per_period(start_time, end_time, rows) ==
    Orderings({r.dns_record :
                 r \in {x \in rows : x.first_seen < end_time
                                     /\ x.first_seen >= start_time}})

\* an update that folds the case of the names
set_update_lowercase(s, new) ==
    {(IF d = "A.test" THEN "a.test" ELSE d) : d \in s \cup Range(new)}

\* an update that is lost
set_update_lost(s, new) == s

\* set.update(iterable)
set_update(s, new) == s \cup Range(new)

\* the filter with $gte for the start of the window
find_filter_gte(doc, start_time, end_time) ==
    /\ doc.domain_name # NoField
    /\ doc.verdict = "malicious"
    /\ doc.time_start >= start_time
    /\ doc.time_start < end_time

\* the task_collection.find filter of fetch_domains_per_period_from_q
find_filter(doc, start_time, end_time) ==
    /\ doc.domain_name # NoField
    /\ doc.verdict = "malicious"
    /\ doc.time_start > start_time
    /\ doc.time_start < end_time

\* set(x['task_kwargs']['domain_name'] for x in cur)
cursor_domains(docs, start_time, end_time) ==
    {d.domain_name : d \in {x \in docs : find_filter(x, start_time, end_time)}}

\* str.replace(old, ''), old a single character
replace(s, old) == SelectSeq(s, LAMBDA c : c # old)

\* the name without the .replace('/', '')
output_file_slashes(a_st, a_et) ==
    Prefix \o a_st \o <<"_">> \o a_et \o Suffix

\* 'quad9_domains_{}_{}.txt'.format(args.st, args.et).replace('/', '')
output_file(a_st, a_et) ==
    replace(Prefix \o a_st \o <<"_">> \o a_et \o Suffix, "/")

\* sep.join(items): the items with sep between neighbours
RECURSIVE join(_, _)
join(sep, items) ==
    IF Len(items) = 0 THEN <<>>
    ELSE IF Len(items) = 1 THEN <<items[1]>>
    ELSE <<items[1], sep>> \o join(sep, Tail(items))

\* open(name, 'w') and f.write(content): the file is created or truncated
write_file(files, name, content) ==
    {f \in files : f.name # name} \cup {[name |-> name, content |-> content]}

Info(msg) == <<"INFO", msg>>
Warning(msg) == <<"WARNING", msg>>

\* -------------------------------------------------------------- __main__
\* a file of an earlier run for the same period
OldContent == <<"old.test">>

EnvInit ==
    /\ exc = None
    /\ log = <<>>
    /\ ctiConnected = FALSE
    /\ dnsRows = {}
    /\ config = Unread
    /\ q_servers = <<>>
    /\ domains = {}
    /\ tunnel = "none"
    /\ queried = {}

Init ==
    /\ pc = "args"
    /\ args \in [st : ArgStrings, et : ArgStrings]
    /\ st = None /\ et = None
    /\ fs \in {{}, {[name |-> output_file(args.st, args.et), content |-> OldContent]}}
    /\ q = None
    /\ qStore = [a \in {e.public : e \in Endpoints} |->
                   {[domain_name |-> "a.test", verdict |-> "malicious",
                     time_start |-> Day0 + 1],
                    [domain_name |-> "c.test", verdict |-> "malicious",
                     time_start |-> Day0 + 1]}]
    /\ reachable \in SUBSET {e.public : e \in Endpoints}
    /\ EnvInit

Raise(e) ==
    /\ pc' = "raised"
    /\ exc' = e

\* st = dt.datetime.strptime(args.st, '%d/%m/%Y')
ParseSt ==
    /\ pc = "args"
    /\ LET r == strptime(args.st) IN
         IF r.ok
         THEN pc' = "st_parsed" /\ st' = r.value /\ exc' = exc
         ELSE Raise(r.error) /\ st' = st
    /\ UNCHANGED <<et, log, domains>>
    /\ UNCHANGED mainVars /\ UNCHANGED qVars

\* et = dt.datetime.strptime(args.et, '%d/%m/%Y'), then the period is logged
ParseEt ==
    /\ pc = "st_parsed"
    /\ LET r == strptime(args.et) IN
         IF r.ok
         THEN /\ pc' = "parsed" /\ et' = r.value /\ exc' = exc
              /\ log' = Append(log, Info("Fetching domains for period"))
         ELSE Raise(r.error) /\ et' = et /\ log' = log
    /\ UNCHANGED <<st, domains>>
    /\ UNCHANGED mainVars /\ UNCHANGED qVars

\* the connection made before the arguments are parsed
ConnectCti_BeforeParsing ==
    /\ pc = "args"
    /\ ~ ctiConnected
    /\ ctiConnected' = TRUE
    /\ log' = Append(log, Info("connected to CTI"))
    /\ UNCHANGED <<pc, st, et, exc, domains, args, dnsRows, config, q_servers, fs>>
    /\ UNCHANGED qVars

\* connect_to_cti_db(cti_conf) returns
ConnectCti ==
    /\ pc = "parsed"
    /\ pc' = "connected"
    /\ ctiConnected' = TRUE
    /\ log' = Append(log, Info("connected to CTI"))
    /\ UNCHANGED <<st, et, exc, domains, args, dnsRows, config, q_servers, fs>>
    /\ UNCHANGED qVars

\* connect_to_cti_db(cti_conf) raises
ConnectCtiFail ==
    /\ pc = "parsed"
    /\ Raise("CtiConnectionError")
    /\ UNCHANGED <<st, et, log, domains>>
    /\ UNCHANGED mainVars /\ UNCHANGED qVars

\* fetch_all_malicious_domains_per_period, up to the logging of the servers
LoadConfig ==
    /\ pc = "connected"
    /\ \E file \in ConfigFiles :
         /\ config' = file
         /\ LET r == get_q_servers_from_config(file) IN
              IF r.ok
              THEN /\ pc' = "configured" /\ exc' = exc
                   /\ q_servers' = r.value
                   /\ log' = Append(log, Info("Q Servers"))
              ELSE Raise(r.error) /\ q_servers' = q_servers /\ log' = log
    /\ domains' = {}
    /\ UNCHANGED <<st, et, args, ctiConnected, dnsRows, fs>>
    /\ UNCHANGED qVars

\* fetch_all_malicious_domains_per_period, from the CTI query to the return
FetchCti ==
    /\ pc = "configured"
    /\ \E rows \in SubsetsUpTo(DnsRows, MaxRecords) :
         /\ dnsRows' = rows
         /\ \E new_domains \in get_cti_domains_per_period(st, et, rows) :
              domains' = set_update(domains, new_domains)
    /\ pc' = "fetched"
    /\ UNCHANGED <<st, et, exc, log, args, ctiConnected, config, q_servers, fs>>
    /\ UNCHANGED qVars

\* the CTI query raises inside a `with open(output_file, 'w')`
FetchCtiFail_FileOpened ==
    /\ pc = "configured"
    /\ Raise("QueryError")
    /\ fs' = write_file(fs, output_file(args.st, args.et), <<>>)
    /\ UNCHANGED <<st, et, log, domains, args, ctiConnected, dnsRows, config,
                   q_servers>>
    /\ UNCHANGED qVars

\* the CTI query raises
FetchCtiFail ==
    /\ pc = "configured"
    /\ Raise("QueryError")
    /\ UNCHANGED <<st, et, log, domains>>
    /\ UNCHANGED mainVars /\ UNCHANGED qVars

\* the output file is opened for writing and the joined domains written, in
\* the order the set enumerates them
WriteOutput ==
    /\ pc = "fetched"
    /\ \E order \in Orderings(domains) :
         fs' = write_file(fs, output_file(args.st, args.et), join("\n", order))
    /\ pc' = "done"
    /\ UNCHANGED <<st, et, exc, log, domains, args, ctiConnected, dnsRows,
                   config, q_servers>>
    /\ UNCHANGED qVars

Next ==
    \/ ParseSt
    \/ ParseEt
    \/ ConnectCti
    \/ ConnectCtiFail
    \/ LoadConfig
    \/ FetchCti
    \/ FetchCtiFail
    \/ WriteOutput

Spec == Init /\ [][Next]_vars

\* ------------------------------------ fetch_domains_per_period_from_q
InitQ ==
    /\ pc = "q_call"
    /\ q \in {QServer(e.public, e.private, "user", "secret", "q") : e \in Endpoints}
    /\ st \in Times /\ et \in Times
    /\ \E docs \in SubsetsUpTo(TaskDocs, MaxDocs) :
         qStore = [a \in {e.public : e \in Endpoints} |->
                     IF a = q.public_addr THEN docs ELSE {}]
    /\ reachable \in SUBSET {q.public_addr}
    /\ args = [st |-> <<>>, et |-> <<>>]
    /\ fs = {}
    /\ EnvInit

\* SSHTunnelForwarder(...) and server.start(); BaseSSHTunnelForwarderError is
\* caught, a warning logged and set() returned
QTunnel ==
    /\ pc = "q_call"
    /\ IF q.public_addr \in reachable
       THEN /\ tunnel' = "started"
            /\ log' = Append(log, Info("SSH-tunneled to"))
            /\ pc' = "q_tunneled"
            /\ domains' = domains
       ELSE /\ tunnel' = tunnel
            /\ log' = Append(log, Warning("Could not SSH-tunnel to"))
            /\ pc' = "q_returned"
            /\ domains' = {}
    /\ UNCHANGED <<st, et, exc, q, qStore, reachable, queried>>
    /\ UNCHANGED mainVars

\* get_collection, find and the iteration of the cursor into `domains`
QFetch ==
    /\ pc = "q_tunneled"
    /\ queried' = queried \cup {q.public_addr}
    /\ domains' = cursor_domains(qStore[q.public_addr], st, et)
    /\ log' = Append(log, Info("Fetching domains from cursor took"))
    /\ pc' = "q_fetched"
    /\ UNCHANGED <<st, et, exc, q, tunnel, qStore, reachable>>
    /\ UNCHANGED mainVars

\* connecting to the forwarded port or iterating the cursor raises
QFetchFail ==
    /\ pc = "q_tunneled"
    /\ queried' = queried \cup {q.public_addr}
    /\ Raise("PyMongoError")
    /\ UNCHANGED <<st, et, log, domains, q, tunnel, qStore, reachable>>
    /\ UNCHANGED mainVars

\* server.stop()
QStop ==
    /\ pc = "q_fetched"
    /\ tunnel' = "stopped"
    /\ pc' = "q_stopped"
    /\ UNCHANGED <<st, et, exc, log, domains, q, qStore, reachable, queried>>
    /\ UNCHANGED mainVars

\* the count is logged and `domains` returned
QReturn ==
    /\ pc = "q_stopped"
    /\ log' = Append(log, Info("Fetched domains"))
    /\ pc' = "q_returned"
    /\ UNCHANGED <<st, et, exc, domains>>
    /\ UNCHANGED qVars /\ UNCHANGED mainVars

NextQ ==
    \/ QTunnel
    \/ QFetch
    \/ QFetchFail
    \/ QStop
    \/ QReturn

SpecQ == InitQ /\ [][NextQ]_vars

\* ------------------------------------------------------------ properties
\* the domains of the Dns rows first seen in [st, et)
CtiInWindow == {r.dns_record : r \in {x \in dnsRows : st <= x.first_seen /\ x.first_seen < et}}

\* the domains of the task documents of server s that are malicious, have a
\* domain name and started strictly between st and et
QInWindow(s) ==
    {d.domain_name : d \in {x \in qStore[s.public_addr] :
        /\ x.domain_name # NoField /\ x.verdict = "malicious"
        /\ st < x.time_start /\ x.time_start < et}}

Reachable(servers) == {s \in Range(servers) : s.public_addr \in reachable}

\* the output file of the run, and its lines
OutputName == Prefix \o replace(args.st, "/") \o <<"_">> \o replace(args.et, "/") \o Suffix
OutputFiles == {f \in fs : f.name = OutputName}
Lines(content) == IF content = <<>> THEN <<>> ELSE Split(content, "\n")
Occurrences(lines, d) == Cardinality({i \in 1..Len(lines) : lines[i] = <<d>>})

\* C1: the result of fetch_all_malicious_domains_per_period is the union of
\* the CTI domains of the window and of the domains fetched from every
\* configured server whose tunnel could be established.
C1_UnionOfCtiAndServers ==
    pc \in {"fetched", "done"} =>
        domains = CtiInWindow \cup UNION {QInWindow(s) : s \in Reachable(q_servers)}

\* C2: a server whose tunnel cannot be established raises nothing, and a run
\* with such a server among several completes with the union of the CTI
\* domains and of the domains of the servers that could be reached.
C2_RunSkipsFailedServer ==
    (/\ pc = "done"
     /\ Len(q_servers) >= 2
     /\ \E s \in Range(q_servers) : s.public_addr \notin reachable)
    => /\ exc = None
       /\ \A s \in Range(q_servers) : s.public_addr \notin reachable
             => s.public_addr \notin queried
       /\ domains = CtiInWindow
                    \cup UNION {QInWindow(s) : s \in Range(q_servers) \ 
                                  {u \in Range(q_servers) : u.public_addr \notin reachable}}

\* C3: when a call of fetch_domains_per_period_from_q has ended, by a return
\* or by an exception, no tunnel it started is still up.
C3_TunnelStoppedOnExit ==
    pc \in {"q_returned", "raised"} => tunnel # "started"

C5_NoServersGivesCti ==
    (pc \in {"fetched", "done"} /\ Len(q_servers) = 0)
        => (domains = CtiInWindow /\ tunnel = "none" /\ queried = {})

C5_Witness ==
    pc = "done" /\ config.kind = "json" /\ Len(q_servers) = 0 /\ domains # {}

\* C6: the CTI query gives a domain only if a row of it has
\* st <= first_seen < et; a row first seen at st or at et - 1 brings its
\* domain in, a domain whose rows are all first seen at et is left out.
C6_CtiWindowHalfOpen ==
    pc \in {"fetched", "done"} =>
        /\ \A d \in domains : \E r \in dnsRows :
              r.dns_record = d /\ st <= r.first_seen /\ r.first_seen < et
        /\ \A r \in dnsRows :
              (r.first_seen = st /\ st < et) => r.dns_record \in domains
        /\ \A r \in dnsRows :
              (r.first_seen = et - 1 /\ st <= et - 1) => r.dns_record \in domains
        /\ \A d \in CtiDomainNames :
              (\A r \in dnsRows : r.dns_record = d => r.first_seen = et)
                 => d \notin domains

C6_Witness ==
    /\ pc = "fetched"
    /\ st < et - 1
    /\ \E r1, r2, r3 \in dnsRows :
         /\ r1.first_seen = st /\ r1.dns_record \in domains
         /\ r2.first_seen = et - 1 /\ r2.dns_record \in domains
         /\ r3.first_seen = et /\ r3.dns_record \notin domains

\* C7: the task query gives a domain only from documents with a domain name
\* and verdict "malicious" whose time_start is strictly between st and et; a
\* document started exactly at st brings nothing, where a Dns row first seen
\* at st would bring its domain.
C7_TaskWindowOpen ==
    pc \in {"q_fetched", "q_stopped", "q_returned"} /\ tunnel # "none" =>
        /\ \A d \in domains : \E x \in qStore[q.public_addr] :
              /\ x.domain_name = d /\ x.verdict = "malicious"
              /\ st < x.time_start /\ x.time_start < et
        /\ NoField \notin domains
        /\ \A x \in qStore[q.public_addr] :
              (x.time_start = st /\ x.domain_name # NoField /\ st < et) =>
                 /\ (\A y \in qStore[q.public_addr] :
                        y.domain_name = x.domain_name => y.time_start = st)
                       => x.domain_name \notin domains
                 /\ get_cti_domains_per_period(st, et,
                       {[dns_record |-> x.domain_name, first_seen |-> st]})
                    = {<<x.domain_name>>}

C7_Witness ==
    /\ pc = "q_returned" /\ tunnel = "stopped"
    /\ \E x, y \in qStore[q.public_addr] :
         /\ x.time_start = st /\ x.verdict = "malicious"
         /\ x.domain_name # NoField /\ x.domain_name \notin domains
         /\ y.domain_name \in domains

\* C8: the output file is named quad9_domains_{st}_{et}.txt, st and et being
\* the arguments without their '/', and holds the domains of the result,
\* each on one line, with a newline between lines and nothing else.
C8_OutputNameAndContent ==
    pc = "done" =>
        /\ \E f \in fs :
              /\ f.name = Prefix \o replace(args.st, "/") \o <<"_">>
                            \o replace(args.et, "/") \o Suffix
              /\ \A i \in 1..Len(f.name) : f.name[i] # "/"
              /\ Len(f.content) = (IF domains = {} THEN 0
                                   ELSE 2 * Cardinality(domains) - 1)
              /\ \A i \in 1..Len(f.content) :
                    IF i % 2 = 0 THEN f.content[i] = "\n"
                    ELSE f.content[i] \in domains
              /\ \A d \in domains : \E i \in 1..Len(f.content) : f.content[i] = d
        /\ (args.st = Date0 /\ args.et = Date7) =>
              \E f \in fs : f.name =
                 <<"q","u","a","d","9","_","d","o","m","a","i","n","s","_",
                   "0","1","0","1","2","0","2","3","_",
                   "0","8","0","1","2","0","2","3",".","t","x","t">>
        /\ Cardinality(fs) = 1

C8_Witness ==
    /\ pc = "done"
    /\ args.st = Date0 /\ args.et = Date7
    /\ Cardinality(domains) >= 2

\* C9: a date argument that does not parse ends the run with a ValueError
\* before the CTI connection, the configuration, a tunnel or a query; any of
\* those happens only once both arguments have parsed.
C9_DatesParsedBeforeNetwork ==
    /\ (~ strptime(args.st).ok /\ pc # "args") => (pc = "raised" /\ exc = ValueError)
    /\ (~ strptime(args.et).ok /\ pc \notin {"args", "st_parsed"})
          => (pc = "raised" /\ exc = ValueError)
    /\ (pc = "raised" /\ exc = ValueError)
          => (/\ ~ ctiConnected /\ config = Unread /\ dnsRows = {}
              /\ tunnel = "none" /\ queried = {})
    /\ (\/ ctiConnected \/ config # Unread \/ tunnel # "none" \/ queried # {}
        \/ exc \in {"CtiConnectionError", "QueryError"}
        \/ pc \in {"connected", "configured", "fetched", "done"})
          => (strptime(args.st).ok /\ strptime(args.et).ok)

C9_Witness ==
    pc = "raised" /\ exc = ValueError /\ strptime(args.st).ok /\ ~ ctiConnected

\* C10: only the step that ends a run that raised nothing, made after the
\* dates were parsed, CTI connected, the configuration loaded and the fetch
\* done, creates or changes a file; any other step leaves the files alone.
C10_OutputOnlyAfterSuccess ==
    [][ /\ fs' # fs =>
             /\ pc = "fetched" /\ pc' = "done" /\ exc = None
             /\ strptime(args.st).ok /\ strptime(args.et).ok
             /\ ctiConnected /\ config.kind = "json"
        /\ pc' # "done" => fs' = fs ]_vars

C10_Witness ==
    /\ pc = "raised" /\ exc = "QueryError"
    /\ fs = {[name |-> OutputName, content |-> OldContent]}

====
